---- MODULE Spec2Model ----
(***************************************************************************)
(* Model of memory/api.py: the response sanitizer clean_embedding_data and *)
(* the values it is applied to.                                            *)
(*                                                                         *)
(* A Python value is a record [k |-> kind, v |-> payload]:                 *)
(*   none, int, float, bool, str, other  scalars (str payload: the string  *)
(*                                       as a sequence of characters)      *)
(*   list, tuple                         payload: sequence of values       *)
(*   dict                                payload: sequence of <<key, val>> *)
(*                                       pairs in insertion order          *)
(*   obj                                 payload: the object's __dict__,   *)
(*                                       as for dict                       *)
(* An exception leaving a call is the record [k |-> "raise", v |-> name].  *)
(***************************************************************************)
EXTENDS Integers, Sequences, FiniteSets, TLC

VARIABLES value, result, second, calls, pc

\* one call of an endpoint that reads the graph: the request, what the
\* external engine does during it, and what the handler did
VARIABLES request, engine, outcome

sanitizerVars == <<value, result, second, calls, pc>>

queryVars == <<request, engine, outcome>>

\* the process-wide handles and the tasks calling get_graphiti: the two
\* globals, the environment, where each task is, and what has been
\* constructed, returns and raised so far
VARIABLES graphiti_instance, neo4j_driver_instance, env, taskPc, constructed,
          returns, raised

graphitiVars ==
    <<graphiti_instance, neo4j_driver_instance, env, taskPc, constructed,
      returns, raised>>

\* the graph over time: the episodic nodes the engine stores, the uuids
\* add_memory has returned, the uuids delete_episode has reported deleted, and
\* the outcome of the latest request when it was a listing or a deletion
VARIABLES store, added, deleted, listing, deletion

episodeVars == <<store, added, deleted, listing, deletion>>

\* the objects the sanitizer's argument is made of, when they are followed as
\* shared mutable objects: the cells of the memory, the argument, and the
\* calls of clean_value that are on the interpreter's stack
VARIABLES memory, root, frames

sharedVars == <<memory, root, frames>>

vars == <<sanitizerVars, queryVars, graphitiVars, episodeVars, sharedVars>>

\* ------------------------------------------------------------------ bounds
MaxDepth == 2
MaxExtra == 1
NumTasks == 2
MaxCells == 2
RecursionLimit == 4

\* ------------------------------------------------- thresholds of the code
MinEmbeddingLen == 32
SampleLen == 64

\* ------------------------------------------------------------ Python values
PyNone == [k |-> "none", v |-> 0]
PyInt(n) == [k |-> "int", v |-> n]
PyFloat(n) == [k |-> "float", v |-> n]
PyBool(b) == [k |-> "bool", v |-> b]
PyStr(s) == [k |-> "str", v |-> s]
PyOther == [k |-> "other", v |-> 0]
PyList(s) == [k |-> "list", v |-> s]
PyTuple(s) == [k |-> "tuple", v |-> s]
PyDict(items) == [k |-> "dict", v |-> items]
PyObj(items) == [k |-> "obj", v |-> items]
Raise(name) == [k |-> "raise", v |-> name]
Unset == [k |-> "unset", v |-> 0]

\* ---------------------------------------------------------------- strings
UpperCase == <<"A","B","C","D","E","F","G","H","I","J","K","L","M",
               "N","O","P","Q","R","S","T","U","V","W","X","Y","Z">>
LowerCase == <<"a","b","c","d","e","f","g","h","i","j","k","l","m",
               "n","o","p","q","r","s","t","u","v","w","x","y","z">>

\* str.lower() on one character
lower_char(c) ==
    IF \E i \in 1..Len(UpperCase) : UpperCase[i] = c
    THEN LowerCase[CHOOSE i \in 1..Len(UpperCase) : UpperCase[i] = c]
    ELSE c

\* str.lower()
lower(s) == [i \in 1..Len(s) |-> lower_char(s[i])]

\* sub in s, for strings
contains(s, sub) ==
    \E i \in 1..(Len(s) - Len(sub) + 1) : SubSeq(s, i, i + Len(sub) - 1) = sub

S_embedding == <<"e","m","b","e","d","d","i","n","g">>
S_name_embedding == <<"n","a","m","e","_">> \o S_embedding
S_fact_embedding == <<"f","a","c","t","_">> \o S_embedding
S_attributes == <<"a","t","t","r","i","b","u","t","e","s">>
S_Name_Embedding == <<"N","a","m","e","_","E","m","b","e","d","d","i","n","g">>
S_Attributes == <<"A","t","t","r","i","b","u","t","e","s">>
S_uuid == <<"u","u","i","d">>
S_fact == <<"f","a","c","t">>
S_hi == <<"h","i">>

\* ------------------------------------------------------- clean_embedding_data
\* isinstance(v, (int, float)); bool is a subclass of int in Python
isinstance_int_float(v) == v.k \in {"int", "float", "bool"}

Min(a, b) == IF a <= b THEN a ELSE b

\* val[:64], as the set of indices the slice keeps
slice_indices(val) == 1..Min(Len(val.v), SampleLen)

\* is_large_float_list with `len(val) > 32` written for `len(val) >= 32`
is_large_float_list_strict(val) ==
    /\ val.k = "list"
    /\ Len(val.v) > MinEmbeddingLen
    /\ \A i \in slice_indices(val) : isinstance_int_float(val.v[i])

is_large_float_list(val) ==
    /\ val.k = "list"
    /\ Len(val.v) >= MinEmbeddingLen
    /\ \A i \in slice_indices(val) : isinstance_int_float(val.v[i])

\* key.lower() exists for str only: any other key makes should_drop_key raise
lower_raises(key) == key.k # "str"

\* should_drop_key without the call of lower()
should_drop_key_cased(key) ==
    \/ contains(key.v, S_embedding)
    \/ key.v \in {S_name_embedding, S_fact_embedding}

should_drop_key(key) ==
    LET lowered == lower(key.v)
    IN  \/ contains(lowered, S_embedding)
        \/ lowered \in {S_name_embedding, S_fact_embedding}

\* the 'attributes' test left out
is_attributes_key_never(key) == FALSE

\* k in {'attributes'}
is_attributes_key(key) == key = PyStr(S_attributes)

\* dict branch: the two `continue` tests of the loop body
dict_skips_key(key) == should_drop_key(key) \/ is_attributes_key(key)

\* the __dict__ branch without its 'attributes' test
object_skips_key_embedding_only(key) == should_drop_key(key)

\* __dict__ branch: the `continue` test of the loop body
object_skips_key(key) == should_drop_key(key) \/ is_attributes_key(key)

\* hasattr(val, '__dict__')
hasattr_dict(val) == val.k = "obj"

\* cv is not None / ci is not None
is_not_none(cv) == cv # PyNone

\* What a call hands back: the returned value (or the exception) and where
\* clean_value was called: for each call, the mapping and attribute keys that
\* lead from the argument to the value of the call.
Ret(res, visited) == [res |-> res, visited |-> visited]

\* an iteration that ended in `continue`
Skipped == [k |-> "skip", v |-> 0]

\* the iterations of a loop as a sequence, each worked out once
Steps(f, n) == SubSeq(f, 1, n)

\* the iteration at which a loop is left by an exception (n: none is)
LastStep(step, n) ==
    LET raising == {i \in 1..n : step[i].res.k = "raise"}
    IN  IF raising = {} THEN n
        ELSE CHOOSE i \in raising : \A j \in raising : i <= j

\* the entries stored in `cleaned`, in loop order
KeptEntries(items, step) ==
    LET stored(e) == e[2].k # "skip" /\ is_not_none(e[2])
    IN  SelectSeq([i \in 1..Len(items) |-> <<items[i][1], step[i].res>>], stored)

\* cleaned_list.insert(0, ci) written for cleaned_list.append(ci)
KeptItems_prepended(step, n) ==
    LET kept == SelectSeq([i \in 1..n |-> step[i].res], is_not_none)
    IN  [i \in 1..Len(kept) |-> kept[Len(kept) - i + 1]]

\* the items appended to `cleaned_list`, in loop order
KeptItems(step, n) ==
    SelectSeq([i \in 1..n |-> step[i].res], is_not_none)

RECURSIVE clean_value(_, _)

\* for k, v in val.items(): ...  (step[i]: what iteration i does when reached)
clean_dict(items, path) ==
    LET n == Len(items)
        step == Steps([i \in 1..n |->
                    IF lower_raises(items[i][1])
                    THEN Ret(Raise("AttributeError"), {})
                    ELSE IF dict_skips_key(items[i][1]) THEN Ret(Skipped, {})
                    ELSE clean_value(items[i][2], Append(path, items[i][1]))], n)
        last == LastStep(step, n)
        visited == {path} \cup UNION {step[i].visited : i \in 1..last}
    IN  IF n > 0 /\ step[last].res.k = "raise" THEN Ret(step[last].res, visited)
        ELSE Ret(PyDict(KeptEntries(items, step)), visited)

\* for k, v in val.__dict__.items(): ...
clean_object(items, path) ==
    LET n == Len(items)
        step == Steps([i \in 1..n |->
                    IF lower_raises(items[i][1])
                    THEN Ret(Raise("AttributeError"), {})
                    ELSE IF object_skips_key(items[i][1]) THEN Ret(Skipped, {})
                    ELSE clean_value(items[i][2], Append(path, items[i][1]))], n)
        last == LastStep(step, n)
        visited == {path} \cup UNION {step[i].visited : i \in 1..last}
    IN  IF n > 0 /\ step[last].res.k = "raise" THEN Ret(step[last].res, visited)
        ELSE Ret(PyDict(KeptEntries(items, step)), visited)

\* for item in val: ...
clean_list(items, path) ==
    LET n == Len(items)
        step == Steps([i \in 1..n |-> clean_value(items[i], path)], n)
        last == LastStep(step, n)
        visited == {path} \cup UNION {step[i].visited : i \in 1..last}
    IN  IF n > 0 /\ step[last].res.k = "raise" THEN Ret(step[last].res, visited)
        ELSE Ret(PyList(KeptItems(step, n)), visited)

clean_value(val, path) ==
    IF is_large_float_list(val) THEN Ret(PyNone, {path})
    ELSE IF val.k = "dict" THEN clean_dict(val.v, path)
    ELSE IF hasattr_dict(val) THEN clean_object(val.v, path)
    ELSE IF val.k \in {"list", "tuple"} THEN clean_list(val.v, path)
    ELSE Ret(val, {path})

clean_embedding_data(val) == clean_value(val, <<>>)

\* --------------------------------------------------------- argument values
\* n floating-point numbers
Floats(n) == SubSeq([i \in 1..n |-> PyFloat(1)], 1, n)

\* n floating-point numbers with `bad` in place p
WithBad(n, p, bad) == SubSeq([i \in 1..n |-> IF i = p THEN bad ELSE PyFloat(1)], 1, n)

Bools(n) == SubSeq([i \in 1..n |-> PyBool(TRUE)], 1, n)

Scalars ==
    {PyNone, PyInt(0), PyFloat(1), PyBool(FALSE), PyStr(<<>>), PyStr(S_hi), PyOther}

ShortValues ==
    {PyDict(<<>>), PyList(<<>>), PyList(Floats(2)), PyList(<<PyNone, PyFloat(1)>>),
     PyDict(<< <<PyStr(S_Attributes), PyInt(0)>> >>)}

\* the lengths around the two thresholds
LongLens ==
    {MinEmbeddingLen - 1, MinEmbeddingLen} \cup (SampleLen..(SampleLen + MaxExtra))

LongSeqs ==
    {Floats(n) : n \in LongLens}
        \cup {WithBad(n, p, PyStr(S_hi)) :
                n \in (SampleLen + 1)..(SampleLen + MaxExtra),
                p \in {SampleLen, SampleLen + 1}}
        \cup {WithBad(MinEmbeddingLen, MinEmbeddingLen, PyStr(S_hi)),
              WithBad(SampleLen, 1, PyNone),
              WithBad(MinEmbeddingLen + 1, MinEmbeddingLen + 1,
                      PyList(Floats(MinEmbeddingLen))),
              Bools(MinEmbeddingLen)}

Leaves ==
    Scalars \cup ShortValues
        \cup {PyList(s) : s \in LongSeqs}
        \cup {PyTuple(Floats(MinEmbeddingLen))}

WrapKinds ==
    {"dict_fact", "dict_Name_Embedding", "dict_attributes", "dict_int_key",
     "obj_uuid", "obj_attributes", "list", "tuple"}

\* the container of the given kind that holds v directly
Wrap(kind, v) ==
    CASE kind = "dict_fact" ->
            PyDict(<< <<PyStr(S_uuid), PyStr(S_hi)>>, <<PyStr(S_fact), v>> >>)
      [] kind = "dict_Name_Embedding" -> PyDict(<< <<PyStr(S_Name_Embedding), v>> >>)
      [] kind = "dict_attributes" ->
            PyDict(<< <<PyStr(S_attributes), v>>, <<PyStr(S_uuid), PyInt(0)>> >>)
      [] kind = "dict_int_key" -> PyDict(<< <<PyInt(1), v>> >>)
      [] kind = "obj_uuid" ->
            PyObj(<< <<PyStr(S_fact_embedding), PyInt(0)>>, <<PyStr(S_uuid), v>> >>)
      [] kind = "obj_attributes" -> PyObj(<< <<PyStr(S_attributes), v>> >>)
      [] kind = "list" -> PyList(<<PyInt(0), v, PyStr(S_hi)>>)
      [] kind = "tuple" -> PyTuple(<<v, PyFloat(1)>>)

\* the nestings of at most d containers, innermost first
WrapSeqs(d) == UNION {[1..n -> WrapKinds] : n \in 0..d}

RECURSIVE Build(_, _)
\* leaf inside the containers ws
Build(leaf, ws) ==
    IF ws = <<>> THEN leaf
    ELSE Wrap(ws[Len(ws)], Build(leaf, SubSeq(ws, 1, Len(ws) - 1)))

\* ------------------------------------------------------------ the calls
\* the tasks of the event loop
Tasks == 1..NumTasks

\* graphiti_instance = None / neo4j_driver_instance = None
None == [k |-> "none", id |-> 0]

\* where a task is: not in get_graphiti, or suspended in it at the await of
\* build_indices_and_constraints() of the instance it constructed
Idle == [at |-> "idle", instance |-> 0]

Building(id) == [at |-> "building", instance |-> id]

\* nothing has called get_graphiti
NoInit ==
    /\ graphiti_instance = None
    /\ neo4j_driver_instance = None
    /\ env = [neo4j_set |-> TRUE, embedding_dim_valid |-> TRUE,
              use_bge_reranker |-> TRUE, bge_reranker_available |-> TRUE]
    /\ taskPc = [t \in Tasks |-> Idle]
    /\ constructed = [drivers |-> 0, clients |-> 0, built |-> {}]
    /\ returns = {}
    /\ raised = 0

\* no episode has been added
NoEpisodes ==
    /\ store = <<>>
    /\ added = {}
    /\ deleted = {}
    /\ listing = Unset
    /\ deletion = Unset

\* no object is followed in the memory
NoShared ==
    /\ memory = <<>>
    /\ root = PyNone
    /\ frames = <<>>

\* no endpoint is being served
NoQuery ==
    /\ request = [endpoint |-> "none", limit |-> 0, center |-> PyNone, offset |-> 0]
    /\ engine = [results |-> <<>>, raises |-> {}, recipes |-> FALSE]
    /\ outcome = Unset

Init ==
    /\ \E leaf \in Leaves, ws \in WrapSeqs(MaxDepth) : value = Build(leaf, ws)
    /\ result = Unset
    /\ second = Unset
    /\ calls = {}
    /\ pc = "start"
    /\ NoQuery
    /\ NoInit
    /\ NoEpisodes
    /\ NoShared

\* result = clean_embedding_data(value)
Clean ==
    /\ pc = "start"
    /\ LET r == clean_embedding_data(value)
       IN  /\ result' = r.res
           /\ calls' = r.visited
    /\ pc' = "done"
    /\ UNCHANGED <<value, second>>
    /\ UNCHANGED queryVars
    /\ UNCHANGED graphitiVars
    /\ UNCHANGED episodeVars
    /\ UNCHANGED sharedVars

\* second = clean_embedding_data(result), for a call that returned
CleanAgain ==
    /\ pc = "done"
    /\ result.k # "raise"
    /\ second' = clean_embedding_data(result).res
    /\ pc' = "twice"
    /\ UNCHANGED <<value, result, calls>>
    /\ UNCHANGED queryVars
    /\ UNCHANGED graphitiVars
    /\ UNCHANGED episodeVars
    /\ UNCHANGED sharedVars

Next == Clean \/ CleanAgain

Spec == Init /\ [][Next]_vars

\* ================================================== the reading endpoints
\* search_facts, search_nodes, get_episodes and execute_cypher_query, each
\* handler as one step.  The graph engine and the database are external: what
\* they return (engine.results), which of their calls raise (engine.raises)
\* and whether the search recipes could be imported (engine.recipes) are
\* chosen freely.

\* ------------------------------------------------------------------ bounds
MaxResults == 2
MaxLimit == 2

\* --------------------------------------------------------- HTTP statuses
HTTP_OK == 200
HTTP_BAD_REQUEST == 400
HTTP_SERVER_ERROR == 500

S_name == <<"n","a","m","e">>
S_labels == <<"l","a","b","e","l","s">>
S_episode_body == <<"e","p","i","s","o","d","e","_","b","o","d","y">>
S_source_node_uuid == <<"s","o","u","r","c","e","_","n","o","d","e","_">> \o S_uuid
S_target_node_uuid == <<"t","a","r","g","e","t","_","n","o","d","e","_">> \o S_uuid
S_episodic == <<"e","p","i","s","o","d","i","c">>
S_Episodic == <<"E","p","i","s","o","d","i","c">>
S_Entity == <<"E","n","t","i","t","y">>
S_EpisodicNode == S_Episodic \o <<"N","o","d","e">>
S_EntityNode == S_Entity \o <<"N","o","d","e">>
S_EntityEdge == S_Entity \o <<"E","d","g","e">>
S_Record == <<"R","e","c","o","r","d">>
S_Unknown == <<"U","n","k","n","o","w","n">>
S_empty == <<>>
S_e1 == <<"e","1">>
S_e2 == <<"e","2">>
S_e3 == <<"e","3">>

\* ------------------------------------------------------------------ UUIDs
\* the number of hexadecimal digits of a UUID
UuidHexLen == 32

Digits == <<"0","1","2","3","4","5","6","7","8","9">>

HexLetters == {"a","b","c","d","e","f","A","B","C","D","E","F"}

IsHexDigit(c) == c \in HexLetters \/ \E i \in 1..Len(Digits) : Digits[i] = c

\* s without the characters in drop
without_chars(s, drop) == SelectSeq(s, LAMBDA c : c \notin drop)

\* hex.strip('{}')
strip_braces(s) ==
    LET keep == {i \in 1..Len(s) : s[i] \notin {"{", "}"}}
    IN  IF keep = {} THEN <<>>
        ELSE SubSeq(s, CHOOSE i \in keep : \A j \in keep : i <= j,
                       CHOOSE i \in keep : \A j \in keep : i >= j)

\* the 32 digits of UUID(text), or <<>> when UUID(text) raises ValueError
uuid_hex(text) ==
    LET hex == without_chars(strip_braces(text), {"-"})
    IN  IF Len(hex) = UuidHexLen /\ \A i \in 1..Len(hex) : IsHexDigit(hex[i])
        THEN lower(hex) ELSE <<>>

\* the text of episode_uuid taken as it was written
uuid_as_written(text) == text

\* str(UUID(text)): lower case, grouped 8-4-4-4-12
canonical_uuid(text) ==
    LET hex == uuid_hex(text)
    IN  SubSeq(hex, 1, 8) \o <<"-">> \o SubSeq(hex, 9, 12) \o <<"-">>
            \o SubSeq(hex, 13, 16) \o <<"-">> \o SubSeq(hex, 17, 20) \o <<"-">>
            \o SubSeq(hex, 21, 32)

\* the uuid, in canonical form, that ends in the hexadecimal digit c
Uuid(c) ==
    [i \in 1..8 |-> "0"] \o <<"-">> \o [i \in 1..4 |-> "0"] \o <<"-">>
        \o [i \in 1..4 |-> "0"] \o <<"-">> \o [i \in 1..4 |-> "0"] \o <<"-">>
        \o [i \in 1..11 |-> "0"] \o <<c>>

\* the uuids of the nodes n1, n2, n3 as the engine prints them
S_n1 == Uuid("a")
S_n2 == Uuid("b")
S_n3 == Uuid("c")

\* str.startswith
startswith(s, prefix) ==
    Len(s) >= Len(prefix) /\ SubSeq(s, 1, Len(prefix)) = prefix

\* hasattr(obj, name): the instance attributes of an object; a dict has none
\* of the names the handlers ask for
hasattr(val, name) ==
    val.k = "obj" /\ \E i \in 1..Len(val.v) : val.v[i][1] = PyStr(name)

\* getattr(obj, name, default)
getattr(val, name, default) ==
    IF hasattr(val, name)
    THEN val.v[CHOOSE i \in 1..Len(val.v) : val.v[i][1] = PyStr(name)][2]
    ELSE default

\* d.get(name, default) on a dict
dict_get(val, name, default) ==
    IF \E i \in 1..Len(val.v) : val.v[i][1] = PyStr(name)
    THEN val.v[CHOOSE i \in 1..Len(val.v) : val.v[i][1] = PyStr(name)][2]
    ELSE default

\* seq[:stop - start], the slice that forgets where it starts
py_slice_from_start(seq, start, stop) ==
    SubSeq(seq, 1, Min(IF stop > start THEN stop - start ELSE 0, Len(seq)))

\* seq[start:stop] for start >= 0 and stop >= 0
py_slice(seq, start, stop) ==
    SubSeq(seq, Min(start, Len(seq)) + 1, Min(stop, Len(seq)))

\* if request.limit and len(results) > request.limit:
\*     results = results[:request.limit]
apply_limit(results, limit) ==
    IF limit # 0 /\ Len(results) > limit
    THEN py_slice(results, 0, limit)
    ELSE results

\* [f(x) for x in seq], the sequence forced
MapSeq(f(_), seq) == SubSeq([i \in 1..Len(seq) |-> f(seq[i])], 1, Len(seq))

\* ------------------------------------------- what the engine can return
\* a result item: the name of its class and its instance attributes
Item(type, attrs) == [type |-> type, obj |-> PyObj(attrs)]

\* an edge with a fact, between n1 and n2
Edge1 ==
    Item(S_EntityEdge,
         << <<PyStr(S_uuid), PyStr(S_e1)>>,
            <<PyStr(S_fact), PyStr(S_hi)>>,
            <<PyStr(S_fact_embedding), PyList(Floats(MinEmbeddingLen))>>,
            <<PyStr(S_source_node_uuid), PyStr(S_n1)>>,
            <<PyStr(S_target_node_uuid), PyStr(S_n2)>> >>)

\* an edge with a fact, between n2 and n3
Edge2 ==
    Item(S_EntityEdge,
         << <<PyStr(S_uuid), PyStr(S_e2)>>,
            <<PyStr(S_fact), PyStr(S_hi)>>,
            <<PyStr(S_source_node_uuid), PyStr(S_n2)>>,
            <<PyStr(S_target_node_uuid), PyStr(S_n3)>> >>)

\* a result without a 'fact' attribute
Edge3 ==
    Item(S_Record,
         << <<PyStr(S_uuid), PyStr(S_e3)>>,
            <<PyStr(S_target_node_uuid), PyStr(S_n1)>> >>)

\* an episode
Node1 ==
    Item(S_EpisodicNode,
         << <<PyStr(S_uuid), PyStr(S_n1)>>,
            <<PyStr(S_name), PyStr(S_hi)>>,
            <<PyStr(S_labels), PyList(<<PyStr(S_Episodic)>>)>>,
            <<PyStr(S_episode_body), PyStr(S_fact)>> >>)

\* an entity
Node2 ==
    Item(S_EntityNode,
         << <<PyStr(S_uuid), PyStr(S_n2)>>,
            <<PyStr(S_name), PyStr(S_hi)>>,
            <<PyStr(S_labels), PyList(<<PyStr(S_Entity)>>)>>,
            <<PyStr(S_name_embedding), PyList(Floats(MinEmbeddingLen))>> >>)

\* an episode known by its label only
Node3 ==
    Item(S_Record,
         << <<PyStr(S_uuid), PyStr(S_n3)>>,
            <<PyStr(S_labels), PyList(<<PyStr(S_Entity), PyStr(S_episodic)>>)>> >>)

\* rows of a query result: a mapping, a bare vector, a mapping that carries a
\* vector, a mapping with a key that is not a string
Row(val) == [type |-> S_Record, obj |-> val]

Rows ==
    {Row(PyDict(<< <<PyStr(S_uuid), PyStr(S_n1)>> >>)),
     Row(PyList(Floats(MinEmbeddingLen))),
     Row(PyDict(<< <<PyStr(S_name), PyStr(S_hi)>>,
                   <<PyStr(S_name_embedding), PyList(Floats(MinEmbeddingLen))>> >>)),
     Row(PyDict(<< <<PyInt(1), PyStr(S_hi)>> >>))}

Edges == {Edge1, Edge2, Edge3}

Nodes == {Node1, Node2, Node3}

Endpoints == {"search_facts", "search_nodes", "get_episodes", "cypher_query"}

EngineCalls == {"get_graphiti", "_search", "search", "execute_query"}

\* what the engine or the database holds for the endpoint
ItemsOf(endpoint) ==
    CASE endpoint = "search_facts" -> Edges
      [] endpoint \in {"search_nodes", "get_episodes"} -> Nodes
      [] endpoint = "cypher_query" -> Rows

SeqsUpTo(S, n) == UNION {[1..m -> S] : m \in 0..n}

NoCenter == PyNone

\* center_node_uuid of a request: absent, empty, n1 in canonical form, n1 in
\* upper case without dashes, a text that UUID() rejects
Centers ==
    {NoCenter, PyStr(S_empty), PyStr(S_n1),
     PyStr([i \in 1..(UuidHexLen - 1) |-> "0"] \o <<"A">>), PyStr(S_hi)}

\* ------------------------------------------------------ the handlers
\* what a handler did: the response (status, entries, total), the raw items
\* it passed to clean_embedding_data, the raw items it built entries from,
\* and the engine calls that raised while it ran
Outcome(status, items, total, cleaned, used, failed) ==
    [status |-> status, items |-> items, total |-> total,
     cleaned |-> cleaned, used |-> used, failed |-> failed]

\* except Exception as e: raise HTTPException(status_code=..., detail=...)
Failure(status, failed) == Outcome(status, <<>>, 0, <<>>, <<>>, failed)

\* the engine call raises in this run
raises(eng, call) == call \in eng.raises

\* if request.center_node_uuid: None and '' are falsy
has_center(req) == req.center # NoCenter /\ req.center.v # <<>>

\* UUID(request.center_node_uuid) raises ValueError
center_raises(req) == has_center(req) /\ uuid_hex(req.center.v) = <<>>

\* str(result.source_node_uuid) == str(center_uuid) or the same on the target
connected_to(item, center_uuid) ==
    \/ hasattr(item.obj, S_source_node_uuid)
        /\ getattr(item.obj, S_source_node_uuid, PyNone).v = center_uuid
    \/ hasattr(item.obj, S_target_node_uuid)
        /\ getattr(item.obj, S_target_node_uuid, PyNone).v = center_uuid

\* a center node filter that keeps every result
center_filter_off(results, center_uuid) == results

\* the center node filter of the recipe path
center_filter(results, center_uuid) ==
    SelectSeq(results, LAMBDA item : connected_to(item, center_uuid))

\* FactResponse(...) from the cleaned result, which is a dict
FactResponse(cleaned) ==
    [uuid |-> dict_get(cleaned, S_uuid, PyStr(S_empty)),
     fact |-> dict_get(cleaned, S_fact, PyStr(S_empty)),
     source_node_uuid |-> dict_get(cleaned, S_source_node_uuid, PyStr(S_empty))]

\* the conversion loop of search_facts
facts_of(results) ==
    LET with_fact == SelectSeq(results, LAMBDA item : hasattr(item.obj, S_fact))
        entry(item) == FactResponse(clean_embedding_data(item.obj).res)
    IN  [items |-> MapSeq(entry, with_fact), cleaned |-> with_fact,
         used |-> with_fact]

search_facts(req, eng) ==
    IF raises(eng, "get_graphiti") THEN Failure(HTTP_SERVER_ERROR, {"get_graphiti"})
    ELSE
    LET search_failed == eng.recipes /\ raises(eng, "_search")
        recipe_failed == eng.recipes /\ (search_failed \/ center_raises(req))
        basic_search == ~eng.recipes \/ recipe_failed
        basic_failed == basic_search /\ ~center_raises(req)
                            /\ raises(eng, "search")
        failed == (IF search_failed THEN {"_search"} ELSE {})
                    \cup (IF basic_failed THEN {"search"} ELSE {})
        results == IF basic_search \/ ~has_center(req) THEN eng.results
                   ELSE center_filter(eng.results, canonical_uuid(req.center.v))
        limited == apply_limit(results, req.limit)
        facts == facts_of(limited)
    IN  IF basic_search /\ (center_raises(req) \/ raises(eng, "search"))
        THEN Failure(HTTP_SERVER_ERROR, failed)
        ELSE Outcome(HTTP_OK, facts.items, Len(facts.items), facts.cleaned,
                     facts.used, failed)

\* NodeResponse(...) from the raw result
NodeResponse(item) ==
    [uuid |-> getattr(item.obj, S_uuid, PyStr(S_empty)),
     name |-> getattr(item.obj, S_name, PyStr(S_Unknown)),
     labels |-> getattr(item.obj, S_labels, PyList(<<>>))]

search_nodes(req, eng) ==
    IF raises(eng, "get_graphiti") THEN Failure(HTTP_SERVER_ERROR, {"get_graphiti"})
    ELSE
    LET searched == eng.recipes
        failed == IF searched /\ raises(eng, "_search") THEN {"_search"} ELSE {}
        node_results == IF searched /\ ~raises(eng, "_search")
                        THEN eng.results ELSE <<>>
        limited == apply_limit(node_results, req.limit)
    IN  Outcome(HTTP_OK, MapSeq(NodeResponse, limited), Len(limited), <<>>,
                limited, failed)

\* any(label.lower().startswith("episodic") for label in labels)
\*   or 'EpisodicNode' in type(n).__name__
is_episodic(item) ==
    LET labels == getattr(item.obj, S_labels, PyList(<<>>))
    IN  \/ labels.k \in {"list", "tuple"}
            /\ \E i \in 1..Len(labels.v) :
                  startswith(lower(labels.v[i].v), S_episodic)
        \/ contains(item.type, S_EpisodicNode)

\* EpisodeResponse(...) from what clean_embedding_data returned
EpisodeResponse(cleaned_ep) ==
    [uuid |-> getattr(cleaned_ep, S_uuid, PyStr(S_empty)),
     name |-> getattr(cleaned_ep, S_name, PyStr(S_empty)),
     content |-> getattr(cleaned_ep, S_episode_body, PyStr(S_empty))]

get_episodes(req, eng) ==
    IF raises(eng, "get_graphiti") THEN Failure(HTTP_SERVER_ERROR, {"get_graphiti"})
    ELSE
    LET searched == eng.recipes
        failed == IF searched /\ raises(eng, "_search") THEN {"_search"} ELSE {}
        node_results == IF searched /\ ~raises(eng, "_search")
                        THEN eng.results ELSE <<>>
        episodic_nodes == SelectSeq(node_results, is_episodic)
        slicer == py_slice(episodic_nodes, req.offset,
                           IF req.limit # 0 THEN req.offset + req.limit
                           ELSE Len(episodic_nodes))
        entry(item) == EpisodeResponse(clean_embedding_data(item.obj).res)
        \* except Exception: continue
        mapped == SelectSeq(slicer,
                      LAMBDA item : clean_embedding_data(item.obj).res.k # "raise")
    IN  Outcome(HTTP_OK, MapSeq(entry, mapped), Len(episodic_nodes), slicer,
                mapped, failed)

\* cleaned_row = clean_embedding_data(row); processed_results.append(cleaned_row)
processed_row(item) == clean_embedding_data(item.obj).res

execute_cypher_query(req, eng) ==
    IF raises(eng, "get_graphiti") THEN Failure(HTTP_BAD_REQUEST, {"get_graphiti"})
    ELSE IF raises(eng, "execute_query")
    THEN Failure(HTTP_BAD_REQUEST, {"execute_query"})
    ELSE
    LET rows == eng.results
        processed_results == MapSeq(processed_row, rows)
        limited == apply_limit(processed_results, req.limit)
    IN  IF \E i \in 1..Len(processed_results) : processed_results[i].k = "raise"
        THEN Failure(HTTP_BAD_REQUEST, {})
        ELSE Outcome(HTTP_OK, limited, Len(limited), rows, rows, {})

\* ---------------------------------------------------- the specification
\* the sanitizer's own call is not running
NoClean ==
    /\ value = PyNone
    /\ result = Unset
    /\ second = Unset
    /\ calls = {}
    /\ pc = "idle"

InitQuery ==
    /\ NoClean
    /\ NoInit
    /\ NoEpisodes
    /\ NoShared
    /\ \E endpoint \in Endpoints, limit \in 0..MaxLimit, center \in Centers,
          offset \in 0..MaxLimit :
          /\ endpoint # "search_facts" => center = NoCenter
          /\ endpoint # "get_episodes" => offset = 0
          /\ request = [endpoint |-> endpoint, limit |-> limit,
                        center |-> center, offset |-> offset]
          /\ \E results \in SeqsUpTo(ItemsOf(endpoint), MaxResults),
                failing \in SUBSET EngineCalls, recipes \in BOOLEAN :
                engine = [results |-> results, raises |-> failing,
                          recipes |-> recipes]
    /\ outcome = Unset

Serve(endpoint, response) ==
    /\ request.endpoint = endpoint
    /\ outcome = Unset
    /\ outcome' = response
    /\ UNCHANGED <<request, engine>>
    /\ UNCHANGED sanitizerVars
    /\ UNCHANGED graphitiVars
    /\ UNCHANGED episodeVars
    /\ UNCHANGED sharedVars

SearchFacts == Serve("search_facts", search_facts(request, engine))

SearchNodes == Serve("search_nodes", search_nodes(request, engine))

GetEpisodes == Serve("get_episodes", get_episodes(request, engine))

ExecuteCypherQuery == Serve("cypher_query", execute_cypher_query(request, engine))

NextQuery == SearchFacts \/ SearchNodes \/ GetEpisodes \/ ExecuteCypherQuery

SpecQuery == InitQuery /\ [][NextQuery]_vars

\* ============================================================= add_memory
\* One add_memory request as one step.  The engine is external: whether
\* get_graphiti raises, and what each of the up to three add_episode
\* invocations would do (return a value, or raise with a message), are chosen
\* freely.  The handler's outcome records every invocation it made.

\* datetime(2024, 1, 1, 12, 0, 0), in minutes after 2024-01-01 00:00
FallbackMinutes == 720

\* a datetime: wall clock in minutes after 2024-01-01 00:00, and its tzinfo
\* (aware or not, and the UTC offset in minutes when aware)
PyDatetime(minutes, aware, utcoffset) ==
    [k |-> "datetime", minutes |-> minutes, aware |-> aware, utcoffset |-> utcoffset]

\* an argument that is not passed
NoArgument == [k |-> "missing", v |-> 0]

\* dt.astimezone(timezone.utc), for an aware dt
astimezone_utc(dt) == PyDatetime(dt.minutes - dt.utcoffset, TRUE, 0)

\* dt.replace(tzinfo=None)
replace_tzinfo_none(dt) == PyDatetime(dt.minutes, FALSE, 0)

\* the aware branch keeps the wall clock as it is (used to test C20)
to_naive_utc_wall_clock(rt) == replace_tzinfo_none(rt)

\* rt.astimezone(timezone.utc).replace(tzinfo=None)
to_naive_utc(rt) == replace_tzinfo_none(astimezone_utc(rt))

fallback_reference_time == PyDatetime(FallbackMinutes, FALSE, 0)

\* the reference_time of the first attempt
normalize_reference_time(reference_time) ==
    IF reference_time # PyNone
    THEN IF reference_time.aware
         THEN to_naive_utc(reference_time)
         ELSE replace_tzinfo_none(reference_time)
    ELSE fallback_reference_time

S_text == <<"t","e","x","t">>
S_TeXt == <<"T","e","X","t">>
S_json == <<"j","s","o","n">>
S_timezone == <<"t","i","m","e","z","o","n","e">>
S_offset_naive_and_offset_aware ==
    <<"o","f","f","s","e","t","-","n","a","i","v","e"," ","a","n","d"," ",
      "o","f","f","s","e","t","-","a","w","a","r","e">>
S_uuid_eq_quote == S_uuid \o <<"=","'">>
S_Failed_to_add_episode ==
    <<"F","a","i","l","e","d"," ","t","o"," ","a","d","d"," ",
      "e","p","i","s","o","d","e",":"," ">>

\* error messages of the engine
Msg_compare == <<"c","m","p"," ">> \o S_offset_naive_and_offset_aware
Msg_TimeZone == <<"b","a","d"," ","T","i","m","e","Z","o","n","e">>
Msg_Offset == <<"O">> \o SubSeq(S_offset_naive_and_offset_aware, 2, 29)
Msg_boom == <<"b","o","o","m">>
Msg_init == <<"n","o"," ","d","b">>

\* the conversion without the call of lower()
episode_type_cased(source_type) == IF source_type = S_text THEN "text" ELSE "json"

\* EpisodeType.text if request.source_type.lower() == "text" else EpisodeType.json
episode_type(source_type) == IF lower(source_type) = S_text THEN "text" ELSE "json"

\* "offset-naive and offset-aware" in error_msg or "timezone" in error_msg.lower()
every_error_is_timezone_error(error_msg) == TRUE

is_timezone_error(error_msg) ==
    \/ contains(error_msg, S_offset_naive_and_offset_aware)
    \/ contains(lower(error_msg), S_timezone)

HexChars ==
    {"0","1","2","3","4","5","6","7","8","9","a","b","c","d","e","f",
     "A","B","C","D","E","F","-"}

\* where the run of [0-9a-fA-F-] that starts at position start ends
hex_run_end(s, start) ==
    CHOOSE j \in (start - 1)..Len(s) :
        /\ \A n \in start..j : s[n] \in HexChars
        /\ j = Len(s) \/ s[j + 1] \notin HexChars

\* uuid='([0-9a-fA-F-]+)' matches at position i
re_match_at(s, i) ==
    /\ i + 5 <= Len(s)
    /\ SubSeq(s, i, i + 5) = S_uuid_eq_quote
    /\ LET j == hex_run_end(s, i + 6)
       IN  j >= i + 6 /\ j < Len(s) /\ s[j + 1] = "'"

\* re.search(r"uuid='([0-9a-fA-F-]+)'", candidate): group(1), or candidate
re_search_uuid(candidate) ==
    IF \E i \in 1..Len(candidate) : re_match_at(candidate, i)
    THEN LET i == CHOOSE n \in 1..Len(candidate) :
                    /\ re_match_at(candidate, n)
                    /\ \A p \in 1..(n - 1) : ~re_match_at(candidate, p)
         IN  SubSeq(candidate, i + 6, hex_run_end(candidate, i + 6))
    ELSE candidate

\* what add_episode returns: an object with a uuid attribute, a plain
\* identifier, or a results object whose text holds uuid='...'
AddEpisodeResults(text) == [k |-> "results", v |-> text]

\* str(episode_uuid)
py_str(val) == val.v

\* the identifier the response carries
episode_uuid_str(episode_uuid) ==
    IF hasattr(episode_uuid, S_uuid)
    THEN py_str(getattr(episode_uuid, S_uuid, PyNone))
    ELSE LET candidate == py_str(episode_uuid)
         IN  IF contains(candidate, S_uuid_eq_quote)
             THEN re_search_uuid(candidate)
             ELSE candidate

\* the identifier given to the episode of the n-th invocation
EpisodeId(n) == <<"a", <<"1", "2", "3">>[n]>>

ReturnShapes == {"object", "plain", "results"}

EpisodeValue(shape, id) ==
    CASE shape = "object" -> PyObj(<< <<PyStr(S_name), PyStr(S_hi)>>,
                                      <<PyStr(S_uuid), PyStr(id)>> >>)
      [] shape = "plain" -> PyStr(id)
      [] shape = "results" ->
            AddEpisodeResults(<<"E","p","(","n","=","'","h","i","'",","," ">>
                                \o S_uuid_eq_quote \o id \o <<"'",")">>)

ErrorMessages == {Msg_compare, Msg_TimeZone, Msg_Offset, Msg_boom}

\* what the n-th add_episode invocation does, if it is made
AddEpisodeOutcomes(n) ==
    {EpisodeValue(shape, EpisodeId(n)) : shape \in ReturnShapes}
        \cup {Raise(msg) : msg \in ErrorMessages}

ReferenceTimes ==
    {PyNone}
        \cup {PyDatetime(minutes, FALSE, 0) : minutes \in {0, FallbackMinutes}}
        \cup {PyDatetime(minutes, TRUE, utcoffset) :
                minutes \in {0, FallbackMinutes}, utcoffset \in {0 - 300, 0, 330}}

S_message == <<"m","e","s","s","a","g","e">>

SourceTypes == {S_text, S_TeXt, S_json, S_message, S_empty}

\* one invocation of graphiti.add_episode
Invocation(reference_time, source, returned) ==
    [reference_time |-> reference_time, source |-> source, returned |-> returned]

\* what the handler did: the response and the invocations it made
AddOutcome(status, episode_uuid, detail, invocations) ==
    [status |-> status, episode_uuid |-> episode_uuid, detail |-> detail,
     invocations |-> invocations]

\* return APIResponse(success=True, ..., data={"episode_uuid": ...})
AddSuccess(invocations) ==
    AddOutcome(HTTP_OK,
               episode_uuid_str(invocations[Len(invocations)].returned),
               S_empty, invocations)

\* raise HTTPException(status_code=500, detail=f"Failed to add episode: {str(e)}")
AddFailure(error_msg, invocations) ==
    AddOutcome(HTTP_SERVER_ERROR, S_empty, S_Failed_to_add_episode \o error_msg,
               invocations)

\* raise e  # Raise original error; e, e2, e3 are the three errors
raise_final_error(e, e2, e3) == e3

raise_original_error(e, e2, e3) == e

add_memory(req, eng) ==
    IF raises(eng, "get_graphiti") THEN AddFailure(Msg_init, <<>>)
    ELSE
    LET source_type == episode_type(req.source_type)
        first == Invocation(normalize_reference_time(req.reference_time),
                            source_type, eng.add_episode[1])
        retry1 == Invocation(fallback_reference_time, source_type,
                             eng.add_episode[2])
        retry2 == Invocation(NoArgument, source_type, eng.add_episode[3])
    IN  IF first.returned.k # "raise" THEN AddSuccess(<<first>>)
        ELSE IF ~is_timezone_error(first.returned.v)
        THEN AddFailure(first.returned.v, <<first>>)
        ELSE IF retry1.returned.k # "raise" THEN AddSuccess(<<first, retry1>>)
        ELSE IF retry2.returned.k # "raise"
        THEN AddSuccess(<<first, retry1, retry2>>)
        ELSE AddFailure(raise_original_error(first.returned.v, retry1.returned.v,
                                             retry2.returned.v),
                        <<first, retry1, retry2>>)

InitAdd ==
    /\ NoClean
    /\ NoInit
    /\ NoEpisodes
    /\ NoShared
    /\ \E reference_time \in ReferenceTimes, source_type \in SourceTypes :
          request = [endpoint |-> "add_memory", reference_time |-> reference_time,
                     source_type |-> source_type]
    /\ \E failing \in SUBSET {"get_graphiti"},
          first \in AddEpisodeOutcomes(1), retry1 \in AddEpisodeOutcomes(2),
          retry2 \in AddEpisodeOutcomes(3) :
          engine = [raises |-> failing, add_episode |-> <<first, retry1, retry2>>]
    /\ outcome = Unset

AddMemory == Serve("add_memory", add_memory(request, engine))

NextAdd == AddMemory

SpecAdd == InitAdd /\ [][NextAdd]_vars

\* =========================================================== get_graphiti
\* The tasks of one event loop calling get_graphiti (startup_event and the
\* endpoint handlers all do).  A task runs without interruption up to its next
\* await; the only await of get_graphiti is build_indices_and_constraints, so
\* a call is one step when the instance exists or the initialization raises,
\* and two steps (up to the await, after the await) when it initializes.
\* The environment variables are fixed for the process; whether a
\* constructor or the index build raises is chosen freely at each call.

\* ------------------------------------------------------------------ bounds
MaxCalls == 3

\* the id-th Neo4jDriver constructed in this process
Neo4jDriver(id) == [k |-> "driver", id |-> id]

\* the id-th Graphiti constructed in this process
Graphiti(id, graph_driver, cross_encoder) ==
    [k |-> "graphiti", id |-> id, graph_driver |-> graph_driver,
     cross_encoder |-> cross_encoder]

\* the environment of the process: the four NEO4J_* variables are all set,
\* OLLAMA_EMBEDDING_DIM parses as an integer, USE_BGE_RERANKER is 'true',
\* and the BGE reranker could be imported
Environments ==
    [neo4j_set : BOOLEAN, embedding_dim_valid : BOOLEAN,
     use_bge_reranker : BOOLEAN, bge_reranker_available : BOOLEAN]

InitGraphiti ==
    /\ NoClean
    /\ NoQuery
    /\ NoEpisodes
    /\ NoShared
    /\ graphiti_instance = None
    /\ neo4j_driver_instance = None
    /\ env \in Environments
    /\ taskPc = [t \in Tasks |-> Idle]
    /\ constructed = [drivers |-> 0, clients |-> 0, built |-> {}]
    /\ returns = {}
    /\ raised = 0

\* the calls made so far that have ended
CallsEnded == Cardinality(returns) + raised

\* task t may start a call of get_graphiti
MayCall(t) ==
    /\ taskPc[t] = Idle
    /\ CallsEnded + Cardinality({u \in Tasks : taskPc[u] # Idle}) < MaxCalls

\* health_check, given what its call of get_graphiti returned:
\* "active": bge_reranker_enabled and bge_reranker_available
health_check(graphiti, environment) ==
    IF graphiti.k = "raise"
    THEN [status |-> "unhealthy", graphiti_initialized |-> FALSE, active |-> FALSE]
    ELSE [status |-> "healthy", graphiti_initialized |-> graphiti # None,
          active |-> environment.use_bge_reranker
                        /\ environment.bge_reranker_available]

\* return graphiti_instance, recorded with the caller, whether the index
\* build of the instance had completed (built: the instances whose build
\* has), the neo4j_driver_instance the caller reads next (delete_episode and
\* execute_cypher_query do), and the answer when the caller is health_check
Return(t, built) ==
    returns' = returns \cup
        {[task |-> t, call |-> CallsEnded + 1, instance |-> graphiti_instance,
          built |-> graphiti_instance.id \in built,
          driver |-> neo4j_driver_instance,
          health |-> health_check(graphiti_instance, env)]}

\* the call raises
RaiseError == raised' = raised + 1

\* if graphiti_instance is None: is false; return graphiti_instance
ReturnExisting(t) ==
    /\ MayCall(t)
    /\ graphiti_instance # None
    /\ Return(t, constructed.built)
    /\ UNCHANGED <<graphiti_instance, neo4j_driver_instance, env, taskPc,
                   constructed, raised>>
    /\ UNCHANGED <<sanitizerVars, queryVars, episodeVars>>
    /\ UNCHANGED sharedVars

\* if not all([...]): raise ValueError
MissingEnv(t) ==
    /\ MayCall(t)
    /\ graphiti_instance = None
    /\ ~env.neo4j_set
    /\ RaiseError
    /\ UNCHANGED <<graphiti_instance, neo4j_driver_instance, env, taskPc,
                   constructed, returns>>
    /\ UNCHANGED <<sanitizerVars, queryVars, episodeVars>>
    /\ UNCHANGED sharedVars

\* Neo4jDriver(...) raises
DriverFails(t) ==
    /\ MayCall(t)
    /\ graphiti_instance = None
    /\ env.neo4j_set
    /\ RaiseError
    /\ UNCHANGED <<graphiti_instance, neo4j_driver_instance, env, taskPc,
                   constructed, returns>>
    /\ UNCHANGED <<sanitizerVars, queryVars, episodeVars>>
    /\ UNCHANGED sharedVars

\* neo4j_driver = Neo4jDriver(...)
new_driver == Neo4jDriver(constructed.drivers + 1)

\* the driver is stored only while none is stored
driver_stored_once(neo4j_driver, current) ==
    IF current = None THEN neo4j_driver ELSE current

\* neo4j_driver_instance = neo4j_driver: the value of the global afterwards
driver_stored(neo4j_driver, current) == neo4j_driver

\* the driver is constructed and stored, then int(os.getenv(
\* 'OLLAMA_EMBEDDING_DIM')) or a constructor (LLMConfig, OpenAIGenericClient,
\* OpenAIEmbedder, Graphiti) raises
ClientFails(t) ==
    /\ MayCall(t)
    /\ graphiti_instance = None
    /\ env.neo4j_set
    /\ neo4j_driver_instance' = driver_stored(new_driver, neo4j_driver_instance)
    /\ constructed' = [constructed EXCEPT !.drivers = @ + 1]
    /\ RaiseError
    /\ UNCHANGED <<graphiti_instance, env, taskPc, returns>>
    /\ UNCHANGED <<sanitizerVars, queryVars, episodeVars>>
    /\ UNCHANGED sharedVars

\* cross_encoder: BGERerankerClient() when requested and available and its
\* constructor does not raise, else None
cross_encoder_of(environment, bge_ok) ==
    IF environment.use_bge_reranker /\ environment.bge_reranker_available /\ bge_ok
    THEN "bge" ELSE "none"

\* lines 180-252: the driver and the client are constructed and stored; the
\* task then waits for build_indices_and_constraints
Construct(t) ==
    /\ MayCall(t)
    /\ graphiti_instance = None
    /\ env.neo4j_set
    /\ env.embedding_dim_valid
    /\ \E bge_ok \in BOOLEAN :
          graphiti_instance' =
              Graphiti(constructed.clients + 1, new_driver,
                       cross_encoder_of(env, bge_ok))
    /\ neo4j_driver_instance' = driver_stored(new_driver, neo4j_driver_instance)
    /\ constructed' = [constructed EXCEPT !.drivers = @ + 1, !.clients = @ + 1]
    /\ taskPc' = [taskPc EXCEPT ![t] = Building(constructed.clients + 1)]
    /\ UNCHANGED <<env, returns, raised>>
    /\ UNCHANGED <<sanitizerVars, queryVars, episodeVars>>
    /\ UNCHANGED sharedVars

\* build_indices_and_constraints() completes; return graphiti_instance
BuildDone(t) ==
    /\ taskPc[t] # Idle
    /\ constructed' = [constructed EXCEPT !.built = @ \cup {taskPc[t].instance}]
    /\ Return(t, constructed.built \cup {taskPc[t].instance})
    /\ taskPc' = [taskPc EXCEPT ![t] = Idle]
    /\ UNCHANGED <<graphiti_instance, neo4j_driver_instance, env, raised>>
    /\ UNCHANGED <<sanitizerVars, queryVars, episodeVars>>
    /\ UNCHANGED sharedVars

\* build_indices_and_constraints() raises
BuildFails(t) ==
    /\ taskPc[t] # Idle
    /\ RaiseError
    /\ taskPc' = [taskPc EXCEPT ![t] = Idle]
    /\ UNCHANGED <<graphiti_instance, neo4j_driver_instance, env, constructed,
                   returns>>
    /\ UNCHANGED <<sanitizerVars, queryVars, episodeVars>>
    /\ UNCHANGED sharedVars

NextGraphiti ==
    \E t \in Tasks :
        \/ ReturnExisting(t)
        \/ MissingEnv(t)
        \/ DriverFails(t)
        \/ ClientFails(t)
        \/ Construct(t)
        \/ BuildDone(t)
        \/ BuildFails(t)

SpecGraphiti == InitGraphiti /\ [][NextGraphiti]_vars

\* api_module.graphiti_instance = None, as a caller that wants a fresh
\* initialization does; neo4j_driver_instance is left as it is
Reset ==
    /\ graphiti_instance # None
    /\ constructed.clients < MaxCalls
    /\ graphiti_instance' = None
    /\ UNCHANGED <<neo4j_driver_instance, env, taskPc, constructed, returns,
                   raised>>
    /\ UNCHANGED <<sanitizerVars, queryVars, episodeVars>>
    /\ UNCHANGED sharedVars

NextReset == NextGraphiti \/ Reset

SpecReset == InitGraphiti /\ [][NextReset]_vars

\* ================================================= episodes over time
\* add_memory, delete_episode and get_episodes against one graph.  The graph
\* is the engine's; it is taken at its best: add_episode stores an episodic
\* node under a fresh uuid, get_by_uuid finds exactly the stored nodes, delete
\* removes the node, and the node search returns every stored node, oldest
\* first.  Each request is one step.

\* ------------------------------------------------------------------ bounds
MaxEpisodes == 2

EpisodeDigits == {"a", "b"}

\* the episodic node add_episode stores
EpisodicNode(uuid) ==
    Item(S_EpisodicNode,
         << <<PyStr(S_uuid), PyStr(uuid)>>,
            <<PyStr(S_name), PyStr(S_hi)>>,
            <<PyStr(S_labels), PyList(<<PyStr(S_Episodic)>>)>>,
            <<PyStr(S_episode_body), PyStr(S_fact)>> >>)

\* the uuid of a stored node
uuid_of(node) == getattr(node.obj, S_uuid, PyNone).v

\* the texts of a uuid a client sends as episode_uuid: canonical, upper case
\* without dashes, in braces
ValidTexts(c) ==
    {Uuid(c),
     without_chars([i \in 1..36 |-> IF Uuid(c)[i] = "a" THEN "A" ELSE Uuid(c)[i]], {"-"}),
     <<"{">> \o Uuid(c) \o <<"}">>}

\* the texts that are no uuid: too short, not hexadecimal
InvalidTexts(c) ==
    {SubSeq(Uuid(c), 1, 35),
     [i \in 1..36 |-> IF i = 1 THEN "z" ELSE Uuid(c)[i]]}

DeleteTexts(c) == ValidTexts(c) \cup InvalidTexts(c)

\* what delete_episode did: the response, the uuid it looked up (<<>> when it
\* looked none up), and the graph afterwards
DeleteOutcome(status, deleted_uuid, looked_up, graph) ==
    [status |-> status, deleted_uuid |-> deleted_uuid, looked_up |-> looked_up,
     graph |-> graph]

\* fails: get_graphiti, get_by_uuid or delete raises for a reason of its own
delete_episode(text, graph, fails) ==
    IF "get_graphiti" \in fails \/ uuid_hex(text) = <<>>
    THEN DeleteOutcome(HTTP_SERVER_ERROR, <<>>, <<>>, graph)
    ELSE
    LET episode_uuid == canonical_uuid(text)
        found == \E i \in 1..Len(graph) : uuid_of(graph[i]) = episode_uuid
    IN  IF ~found \/ "get_by_uuid" \in fails \/ "delete" \in fails
        THEN DeleteOutcome(HTTP_SERVER_ERROR, <<>>, episode_uuid, graph)
        ELSE DeleteOutcome(HTTP_OK, episode_uuid, episode_uuid,
                           SelectSeq(graph, LAMBDA node : uuid_of(node) # episode_uuid))

InitEpisodes ==
    /\ NoClean
    /\ NoQuery
    /\ NoInit
    /\ NoShared
    /\ NoEpisodes

\* add_memory returns success: the engine has stored a new episode
AddEpisode ==
    /\ Cardinality(added) < MaxEpisodes
    /\ \E c \in EpisodeDigits :
          /\ Uuid(c) \notin added
          /\ store' = Append(store, EpisodicNode(Uuid(c)))
          /\ added' = added \cup {Uuid(c)}
    /\ listing' = Unset
    /\ deletion' = Unset
    /\ UNCHANGED deleted
    /\ UNCHANGED <<sanitizerVars, queryVars, graphitiVars, sharedVars>>

\* POST /delete_episode
DeleteEpisode ==
    /\ \E c \in EpisodeDigits, fails \in {{}, {"get_graphiti"}, {"get_by_uuid"}, {"delete"}} :
       \E text \in DeleteTexts(c) :
          LET done == delete_episode(text, store, fails)
          IN  /\ deletion' = [text |-> text, status |-> done.status,
                               deleted_uuid |-> done.deleted_uuid,
                               looked_up |-> done.looked_up, graph |-> store]
              /\ store' = done.graph
              /\ deleted' = IF done.status = HTTP_OK
                            THEN deleted \cup {done.deleted_uuid} ELSE deleted
    /\ listing' = Unset
    /\ UNCHANGED added
    /\ UNCHANGED <<sanitizerVars, queryVars, graphitiVars, sharedVars>>

\* GET /episodes?limit=..&offset=..
ListEpisodes ==
    /\ \E limit \in 0..(MaxEpisodes + 1), offset \in 0..1 :
          listing' =
              [request |-> [endpoint |-> "get_episodes", limit |-> limit,
                            center |-> NoCenter, offset |-> offset],
               response |-> get_episodes(
                    [endpoint |-> "get_episodes", limit |-> limit,
                     center |-> NoCenter, offset |-> offset],
                    [results |-> store, raises |-> {}, recipes |-> TRUE])]
    /\ deletion' = Unset
    /\ UNCHANGED <<store, added, deleted>>
    /\ UNCHANGED <<sanitizerVars, queryVars, graphitiVars, sharedVars>>

NextEpisodes == AddEpisode \/ DeleteEpisode \/ ListEpisodes

SpecEpisodes == InitEpisodes /\ [][NextEpisodes]_vars

\* ================================== clean_embedding_data on shared objects
\* The same function, statement by statement, on a memory of mutable objects:
\* a dict, list, tuple or object is a cell of the memory and is passed around
\* as a reference, so that a write into an argument would show.  The two
\* calls clean the same argument; between them other tasks may run
\* get_graphiti.  The function has no await: a call is one step.

\* a reference to the cell at address a
Ref(a) == [k |-> "ref", v |-> a]

\* a cell: the kind of object and its entries (key-value pairs, or items)
Cell(kind, entries) == [k |-> kind, v |-> entries]

\* `cleaned = val`: the loop stores into the argument itself
cleaned_in_place(mem, val, kind) == [mem |-> mem, at |-> val.v]

\* cleaned = {} / cleaned_list = []: a new, empty object
cleaned_container(mem, val, kind) ==
    [mem |-> Append(mem, Cell(kind, <<>>)), at |-> Len(mem) + 1]

\* cleaned[k] = cv / cleaned_list.append(ci)
store_entry(mem, at, entry) == [mem EXCEPT ![at].v = Append(@, entry)]

\* what a call leaves: the memory and the returned value
Left(mem, res) == [mem |-> mem, res |-> res]

RECURSIVE run_clean_value(_, _), run_loop(_, _, _, _, _)

\* iterations i, i+1, ... of the loop of the branch `kind` over `items`,
\* storing into the cell `at`
run_loop(mem, kind, items, at, i) ==
    IF i > Len(items) THEN Left(mem, Ref(at))
    ELSE IF kind = "list"
    THEN LET ci == run_clean_value(mem, items[i])
         IN  IF ci.res.k = "raise" THEN ci
             ELSE IF is_not_none(ci.res)
             THEN run_loop(store_entry(ci.mem, at, ci.res), kind, items, at, i + 1)
             ELSE run_loop(ci.mem, kind, items, at, i + 1)
    ELSE IF lower_raises(items[i][1]) THEN Left(mem, Raise("AttributeError"))
    ELSE IF (kind = "dict" /\ dict_skips_key(items[i][1]))
              \/ (kind = "obj" /\ object_skips_key(items[i][1]))
    THEN run_loop(mem, kind, items, at, i + 1)
    ELSE LET cv == run_clean_value(mem, items[i][2])
         IN  IF cv.res.k = "raise" THEN cv
             ELSE IF is_not_none(cv.res)
             THEN run_loop(store_entry(cv.mem, at, <<items[i][1], cv.res>>),
                           kind, items, at, i + 1)
             ELSE run_loop(cv.mem, kind, items, at, i + 1)

run_clean_value(mem, val) ==
    IF val.k # "ref" THEN Left(mem, val)
    ELSE
    LET cell == mem[val.v]
    IN  IF is_large_float_list(cell) THEN Left(mem, PyNone)
        ELSE IF cell.k = "dict"
        THEN LET cleaned == cleaned_container(mem, val, "dict")
             IN  run_loop(cleaned.mem, "dict", cell.v, cleaned.at, 1)
        ELSE IF hasattr_dict(cell)
        THEN LET cleaned == cleaned_container(mem, val, "dict")
             IN  run_loop(cleaned.mem, "obj", cell.v, cleaned.at, 1)
        ELSE IF cell.k \in {"list", "tuple"}
        THEN LET cleaned == cleaned_container(mem, val, "list")
             IN  run_loop(cleaned.mem, "list", cell.v, cleaned.at, 1)
        ELSE Left(mem, val)

IsContainer(v) == v.k \in {"dict", "obj", "list", "tuple"}

RECURSIVE allocate(_, _), allocate_entries(_, _, _, _)

\* the entries i, i+1, ... of a container put into the memory; done: the
\* entries before i, as they stand in the cell
allocate_entries(mem, v, i, done) ==
    IF i > Len(v.v) THEN Left(Append(mem, Cell(v.k, done)), Ref(Len(mem) + 1))
    ELSE IF v.k \in {"list", "tuple"}
    THEN LET item == allocate(mem, v.v[i])
         IN  allocate_entries(item.mem, v, i + 1, Append(done, item.res))
    ELSE LET item == allocate(mem, v.v[i][2])
         IN  allocate_entries(item.mem, v, i + 1,
                              Append(done, <<v.v[i][1], item.res>>))

\* the value v as objects of the memory
allocate(mem, v) ==
    IF ~IsContainer(v) THEN Left(mem, v)
    ELSE IF v.k \in {"list", "tuple"} /\ \A i \in 1..Len(v.v) : ~IsContainer(v.v[i])
    THEN Left(Append(mem, Cell(v.k, v.v)), Ref(Len(mem) + 1))
    ELSE allocate_entries(mem, v, 1, <<>>)

RECURSIVE read_value(_, _)

\* the value that val stands for in the memory
read_value(mem, val) ==
    IF val.k # "ref" THEN val
    ELSE LET cell == mem[val.v]
             n == Len(cell.v)
         IN  IF cell.k \in {"list", "tuple"}
             THEN Cell(cell.k, SubSeq([i \in 1..n |-> read_value(mem, cell.v[i])], 1, n))
             ELSE Cell(cell.k,
                       SubSeq([i \in 1..n |->
                                <<cell.v[i][1], read_value(mem, cell.v[i][2])>>], 1, n))

SharedLeaves ==
    {PyNone, PyInt(0), PyStr(S_hi), PyList(<<>>),
     PyList(Floats(MinEmbeddingLen - 1)), PyList(Floats(MinEmbeddingLen)),
     PyTuple(Floats(MinEmbeddingLen))}

SharedWrapKinds == {"dict_fact", "dict_int_key", "obj_uuid", "obj_attributes", "list"}

InitShared ==
    /\ \E leaf \in SharedLeaves,
          ws \in UNION {[1..n -> SharedWrapKinds] : n \in 0..MaxDepth} :
          /\ value = Build(leaf, ws)
          /\ memory = allocate(<<>>, Build(leaf, ws)).mem
          /\ root = allocate(<<>>, Build(leaf, ws)).res
    /\ frames = <<>>
    /\ result = Unset
    /\ second = Unset
    /\ calls = {}
    /\ pc = "start"
    /\ NoQuery
    /\ NoInit
    /\ NoEpisodes

\* result = clean_embedding_data(value), value being the object at root
CleanShared ==
    /\ pc = "start"
    /\ LET r == run_clean_value(memory, root)
       IN  /\ memory' = r.mem
           /\ result' = r.res
    /\ pc' = "done"
    /\ UNCHANGED <<value, second, calls, root, frames>>
    /\ UNCHANGED <<queryVars, graphitiVars, episodeVars>>

\* second = clean_embedding_data(value), the same argument again
CleanSharedAgain ==
    /\ pc = "done"
    /\ LET r == run_clean_value(memory, root)
       IN  /\ memory' = r.mem
           /\ second' = r.res
    /\ pc' = "twice"
    /\ UNCHANGED <<value, result, calls, root, frames>>
    /\ UNCHANGED <<queryVars, graphitiVars, episodeVars>>

NextShared ==
    \/ CleanShared
    \/ CleanSharedAgain
    \/ \E t \in Tasks : Construct(t) \/ BuildDone(t)

SpecShared == InitShared /\ [][NextShared]_vars

\* ============================ clean_embedding_data, one call frame at a time
\* The same function with the interpreter's stack in view: every call of
\* clean_value that goes into a dict, an object or a list is a frame, and the
\* argument is any memory of up to MaxCells objects, those that hold
\* themselves or each other included.  The interpreter raises RecursionError
\* when a call would make the stack deeper than its recursion limit.

\* a call of clean_value inside one of its loops: the branch, the entries it
\* iterates, the object it fills, the iteration it is at
Frame(kind, items, at, i) == [kind |-> kind, items |-> items, at |-> at, i |-> i]

\* the branch of clean_value the object takes
branch_of(cell) ==
    IF cell.k = "dict" THEN "dict"
    ELSE IF hasattr_dict(cell) THEN "obj"
    ELSE "list"

\* clean_value(val) returns without a loop: val is no dict, object, list or
\* tuple, or it is a large float list
returns_at_once(mem, val) ==
    IF val.k = "ref" THEN is_large_float_list(mem[val.v]) ELSE TRUE

\* what such a call returns
returned_at_once(mem, val) ==
    IF val.k = "ref" /\ is_large_float_list(mem[val.v]) THEN PyNone ELSE val

\* the key and the value of iteration i of a frame
key_of(frame) ==
    IF frame.kind = "list" THEN PyNone ELSE frame.items[frame.i][1]

value_of(frame) ==
    IF frame.kind = "list" THEN frame.items[frame.i] ELSE frame.items[frame.i][2]

\* the iteration ends in `continue`
skips(frame) ==
    \/ frame.kind = "dict" /\ dict_skips_key(key_of(frame))
    \/ frame.kind = "obj" /\ object_skips_key(key_of(frame))

\* if cv is not None: cleaned[k] = cv / cleaned_list.append(ci)
store_cleaned(mem, frame, cv) ==
    IF ~is_not_none(cv) THEN mem
    ELSE IF frame.kind = "list" THEN store_entry(mem, frame.at, cv)
    ELSE store_entry(mem, frame.at, <<key_of(frame), cv>>)

\* the frame of the call clean_value(val) and the memory with its new, empty
\* `cleaned`
enter(mem, val) ==
    LET kind == branch_of(mem[val.v])
        cleaned == cleaned_container(mem, val, IF kind = "list" THEN "list" ELSE "dict")
    IN  [mem |-> cleaned.mem, frame |-> Frame(kind, mem[val.v].v, cleaned.at, 1)]

\* the frame on top of the stack, and the stack with its top replaced
Top == frames[Len(frames)]

WithTop(frame) == [frames EXCEPT ![Len(frames)] = frame]

\* what an object of the argument may hold: a number, or any object of the
\* argument, itself included
Held(n) == {PyInt(0)} \cup {Ref(a) : a \in 1..n}

\* the objects of the argument: a dict with the keys 'uuid' and 'attributes',
\* an object with the attribute 'uuid', a list of up to two items, a vector
CellsOver(n) ==
    {Cell("dict", << <<PyStr(S_uuid), v>>, <<PyStr(S_attributes), w>> >>) :
        v \in Held(n), w \in Held(n)}
    \cup {Cell("obj", << <<PyStr(S_uuid), v>> >>) : v \in Held(n)}
    \cup {Cell("list", items) : items \in SeqsUpTo(Held(n), 2)}
    \cup {Cell("list", Floats(MinEmbeddingLen))}

InitFrames ==
    /\ \E n \in 1..MaxCells :
          /\ memory \in [1..n -> CellsOver(n)]
          /\ value = memory
    /\ root = Ref(1)
    /\ frames = <<>>
    /\ result = Unset
    /\ second = Unset
    /\ calls = {}
    /\ pc = "start"
    /\ NoQuery
    /\ NoInit
    /\ NoEpisodes

OthersUnchanged ==
    /\ UNCHANGED <<value, second, calls, root>>
    /\ UNCHANGED <<queryVars, graphitiVars, episodeVars>>

\* return clean_value(value)
CallCleanValue ==
    /\ pc = "start"
    /\ IF returns_at_once(memory, root)
       THEN /\ result' = returned_at_once(memory, root)
            /\ pc' = "done"
            /\ UNCHANGED <<memory, frames>>
       ELSE /\ memory' = enter(memory, root).mem
            /\ frames' = <<enter(memory, root).frame>>
            /\ pc' = "running"
            /\ UNCHANGED result
    /\ OthersUnchanged

\* an iteration that makes no call which loops: the key is skipped, or the
\* value is cleaned at once and stored
LoopBody ==
    /\ pc = "running"
    /\ Top.i <= Len(Top.items)
    /\ IF skips(Top) THEN TRUE ELSE returns_at_once(memory, value_of(Top))
    /\ memory' = IF skips(Top) THEN memory
                 ELSE store_cleaned(memory, Top,
                                    returned_at_once(memory, value_of(Top)))
    /\ frames' = WithTop([Top EXCEPT !.i = @ + 1])
    /\ UNCHANGED <<result, pc>>
    /\ OthersUnchanged

\* cv = clean_value(v) / ci = clean_value(item) on a dict, object or list
Recurse ==
    /\ pc = "running"
    /\ Top.i <= Len(Top.items)
    /\ ~skips(Top)
    /\ ~returns_at_once(memory, value_of(Top))
    /\ Len(frames) < RecursionLimit
    /\ memory' = enter(memory, value_of(Top)).mem
    /\ frames' = Append(frames, enter(memory, value_of(Top)).frame)
    /\ UNCHANGED <<result, pc>>
    /\ OthersUnchanged

\* the same call when the stack is at the interpreter's limit: RecursionError,
\* which no frame catches
RecursionLimitHit ==
    /\ pc = "running"
    /\ Top.i <= Len(Top.items)
    /\ ~skips(Top)
    /\ ~returns_at_once(memory, value_of(Top))
    /\ Len(frames) >= RecursionLimit
    /\ result' = Raise("RecursionError")
    /\ frames' = <<>>
    /\ pc' = "done"
    /\ UNCHANGED memory
    /\ OthersUnchanged

\* return cleaned / return cleaned_list, to the loop that called or to the
\* caller of clean_embedding_data
ReturnCleaned ==
    /\ pc = "running"
    /\ Top.i > Len(Top.items)
    /\ IF Len(frames) = 1
       THEN /\ result' = Ref(Top.at)
            /\ frames' = <<>>
            /\ pc' = "done"
            /\ UNCHANGED memory
       ELSE LET caller == frames[Len(frames) - 1]
            IN  /\ memory' = store_cleaned(memory, caller, Ref(Top.at))
                /\ frames' = Append(SubSeq(frames, 1, Len(frames) - 2),
                                    [caller EXCEPT !.i = @ + 1])
                /\ UNCHANGED <<result, pc>>
    /\ OthersUnchanged

NextFrames ==
    \/ CallCleanValue
    \/ LoopBody
    \/ Recurse
    \/ RecursionLimitHit
    \/ ReturnCleaned

SpecFrames == InitFrames /\ [][NextFrames]_vars

\* ============================================================ properties
\* ---- vocabulary of the properties
\* a number, as the sanitizer's contract uses the word (Python counts bool
\* as an integer type)
IsNumber(v) == v.k \in {"int", "float", "bool"}

\* a numeric sequence of length >= 32 whose first 64 elements are all numeric
EmbeddingShaped(v) ==
    /\ v.k \in {"list", "tuple"}
    /\ Len(v.v) >= 32
    /\ \A i \in 1..Len(v.v) : i <= 64 => IsNumber(v.v[i])

\* a key containing 'embedding' in any letter case
EmbeddingKey(key) == key.k = "str" /\ contains(lower(key.v), S_embedding)

\* a heavy key: an embedding key, or 'attributes'
HeavyKey(key) == EmbeddingKey(key) \/ key = PyStr(S_attributes)

IsSequence(v) == v.k \in {"list", "tuple"}

IsMapping(v) == v.k \in {"dict", "obj"}

HasKey(m, key) == \E j \in 1..Len(m.v) : m.v[j][1] = key

RECURSIVE Leaks(_)
\* v holds, at some depth, an embedding-shaped value or a heavy key
Leaks(v) ==
    \/ EmbeddingShaped(v)
    \/ IsSequence(v) /\ \E i \in 1..Len(v.v) : Leaks(v.v[i])
    \/ IsMapping(v) /\ \E i \in 1..Len(v.v) : HeavyKey(v.v[i][1]) \/ Leaks(v.v[i][2])

RECURSIVE HasAttributes(_)
\* v holds, at some depth, an entry with key 'attributes'
HasAttributes(v) ==
    \/ IsSequence(v) /\ \E i \in 1..Len(v.v) : HasAttributes(v.v[i])
    \/ IsMapping(v) /\ \E i \in 1..Len(v.v) :
            v.v[i][1] = PyStr(S_attributes) \/ HasAttributes(v.v[i][2])

RECURSIVE Plain(_)
\* v with every tuple read as a list and every object as the mapping of its
\* attributes: the shape of v, whatever containers carry it
Plain(v) ==
    IF IsSequence(v) THEN PyList(SubSeq([i \in 1..Len(v.v) |-> Plain(v.v[i])], 1, Len(v.v)))
    ELSE IF IsMapping(v)
         THEN PyDict(SubSeq([i \in 1..Len(v.v) |-> <<v.v[i][1], Plain(v.v[i][2])>>],
                            1, Len(v.v)))
         ELSE v

Returned == pc # "start" /\ result.k # "raise"

\* C1: no leakage -- whatever the input, the returned value holds at no depth
\* an embedding-shaped sequence nor a heavy key.
C1_NoLeakage == Returned => ~Leaks(result)

\* C2: idempotence -- when clean_embedding_data(x) is not absent, sanitizing it
\* once more gives the same value.
C2_Idempotent == (pc = "twice" /\ result # PyNone) => second = result

\* C3: totality -- clean_embedding_data never raises, whatever the input.
C3_NeverRaises == result.k # "raise"

\* C4: shape preservation -- an input with no embedding-shaped value and no
\* heavy key at any depth comes back with the same keys, the same elements in
\* the same order and nothing removed.
C4_ShapePreserved == (Returned /\ ~Leaks(value)) => result = Plain(value)

\* C5: in a mapping a key is omitted only if the key is heavy or its value is
\* embedding-shaped; every other value, falsy ones and null included, stays
\* under its key.
C5_OnlyHeavyOrEmbeddingOmitted ==
    (Returned /\ value.k = "dict") =>
        \A i \in 1..Len(value.v) :
            (~HeavyKey(value.v[i][1]) /\ ~EmbeddingShaped(value.v[i][2]))
                => HasKey(result, value.v[i][1])

\* C6: a list becomes absent exactly when it has at least 32 elements and its
\* first 64 are all numbers (elements past the 64th are not looked at); an
\* all-numeric list shorter than 32 comes back unchanged; the rule is applied
\* to the argument itself, before any other classification.
C6_EmbeddingRule ==
    (pc # "start" /\ value.k = "list") =>
        /\ (result = PyNone) <=>
              (/\ Len(value.v) >= 32
               /\ \A i \in 1..Len(value.v) : i <= 64 => IsNumber(value.v[i]))
        /\ (Len(value.v) < 32 /\ \A i \in 1..Len(value.v) : IsNumber(value.v[i]))
              => result = value

C6_Witness ==
    /\ pc = "done"
    /\ value = PyList(WithBad(65, 65, PyStr(S_hi)))
    /\ result = PyNone

\* C7: in a mapping or attribute view that is sanitized, every key whose
\* lowercase form contains 'embedding' is missing from the output whatever its
\* value, and every other non-heavy key whose value does not sanitize to
\* absent is kept with its sanitized value.
C7_EmbeddingKeysDropped ==
    (Returned /\ IsMapping(value)) =>
        \A i \in 1..Len(value.v) :
            LET key == value.v[i][1]
                cv == clean_embedding_data(value.v[i][2]).res
            IN  /\ EmbeddingKey(key) => ~HasKey(result, key)
                /\ (~HeavyKey(key) /\ cv # PyNone)
                      => \E j \in 1..Len(result.v) : result.v[j] = <<key, cv>>

C7_Witness ==
    /\ pc = "done"
    /\ value = PyDict(<< <<PyStr(S_Name_Embedding), PyList(Floats(2))>> >>)
    /\ result = PyDict(<<>>)

\* C8: an entry with key 'attributes' is dropped with its whole subtree and
\* no call of clean_value is made on anything below it, at every depth, in
\* mappings and in attribute views.
C8_AttributesNotVisited ==
    pc # "start" =>
        /\ \A p \in calls : \A i \in 1..Len(p) : p[i] # PyStr(S_attributes)
        /\ result.k # "raise" => ~HasAttributes(result)

C8_Witness ==
    /\ pc = "done"
    /\ value = Wrap("dict_fact", Wrap("obj_attributes", PyList(Floats(2))))
    /\ result = Wrap("dict_fact", PyDict(<<>>))
    /\ calls = {<<>>, <<PyStr(S_uuid)>>, <<PyStr(S_fact)>>}

\* C9: order preservation -- a list or tuple of N elements that is not itself
\* embedding-shaped and has K elements sanitizing to absent comes back as a
\* sequence of N-K elements: the sanitized remaining elements, in their order.
C9_OrderPreserved ==
    (Returned /\ IsSequence(value) /\ ~EmbeddingShaped(value)) =>
        LET n == Len(value.v)
            cl == SubSeq([i \in 1..n |-> clean_embedding_data(value.v[i]).res], 1, n)
            K == Cardinality({i \in 1..n : cl[i] = PyNone})
            present(x) == x # PyNone
        IN  /\ result.k = "list"
            /\ Len(result.v) = n - K
            /\ result.v = SelectSeq(cl, present)

C9_Witness ==
    /\ pc = "done"
    /\ value = PyList(<<PyInt(0), PyList(Floats(32)), PyStr(S_hi)>>)
    /\ result = PyList(<<PyInt(0), PyStr(S_hi)>>)

\* C10: an object with an attribute dictionary is sanitized exactly like the
\* mapping of its attributes, and what comes back is a plain mapping.
C10_ObjectAsMapping ==
    (pc # "start" /\ value.k = "obj") =>
        /\ result = clean_embedding_data(PyDict(value.v)).res
        /\ result.k # "raise" => result.k = "dict"

C10_Witness ==
    /\ pc = "done"
    /\ value = Wrap("obj_attributes", PyStr(S_hi))
    /\ result = PyDict(<<>>)

\* ------------------------------------------------- the reading endpoints
\* a handler has answered
Answered == outcome # Unset

\* the handler answered with a success response
Succeeded == Answered /\ outcome.status = HTTP_OK

\* C12: in search_facts, search_nodes, get_episodes and execute_cypher_query,
\* every item of the engine that a response entry is built from has been
\* passed through clean_embedding_data.
C12_EveryUsedItemSanitized ==
    Answered =>
        \A i \in 1..Len(outcome.used) :
            \E j \in 1..Len(outcome.cleaned) : outcome.cleaned[j] = outcome.used[i]

\* C13: the 'results' list that execute_cypher_query returns never contains
\* an absent (null) row.
C13_NoAbsentRow ==
    (request.endpoint = "cypher_query" /\ Succeeded) =>
        \A i \in 1..Len(outcome.items) : outcome.items[i] # PyNone

\* C15: a request during which a call to the engine or the database raised
\* never ends in a success response.
C15_EngineFailureFailsRequest ==
    (Answered /\ outcome.failed # {}) => outcome.status # HTTP_OK

\* C16: for search_facts, search_nodes and execute_cypher_query and every
\* limit L >= 0, a success response contains at most L items.
C16_AtMostLimitItems ==
    (request.endpoint \in {"search_facts", "search_nodes", "cypher_query"}
        /\ Succeeded) =>
        Len(outcome.items) <= request.limit

\* ------------------------------------------------------------- add_memory
\* the add_episode invocations of the request
Invocations == outcome.invocations

\* the invocation raised
Raised(invocation) == invocation.returned.k = "raise"

\* a message that holds 'offset-naive and offset-aware', or 'timezone' in any
\* letter case
TimezoneMessage(msg) ==
    \/ contains(msg, S_offset_naive_and_offset_aware)
    \/ \E i \in 1..Len(msg) :
          i + 7 <= Len(msg) /\ lower(SubSeq(msg, i, i + 7)) = S_timezone

\* C18: one add_memory request invokes add_episode at most three times; a
\* second time only if the first raised a timezone error, a third time only if
\* the second raised too; after an invocation that succeeds none follows, and
\* the request returns success with the identifier of that invocation.
C18_RetryCascade ==
    Answered =>
        /\ Len(Invocations) <= 3
        /\ Len(Invocations) >= 2 =>
              Raised(Invocations[1]) /\ TimezoneMessage(Invocations[1].returned.v)
        /\ Len(Invocations) >= 3 => Raised(Invocations[2])
        /\ \A i \in 1..Len(Invocations) :
              ~Raised(Invocations[i]) =>
                  /\ i = Len(Invocations)
                  /\ outcome.status = HTTP_OK
                  /\ outcome.episode_uuid = EpisodeId(i)

\* three invocations, the third succeeding with a results object
C18_Witness ==
    /\ Answered
    /\ Len(Invocations) = 3
    /\ Invocations[3].returned.k = "results"
    /\ outcome.status = HTTP_OK

\* C19: when add_memory fails after add_episode raised, the detail of the
\* HTTP 500 carries the message of the first add_episode error: without a
\* retry when that error is no timezone error, and also when the two fallback
\* attempts failed with other errors.
C19_FirstErrorSurfaced ==
    (Answered /\ outcome.status # HTTP_OK /\ Invocations # <<>>) =>
        /\ outcome.status = HTTP_SERVER_ERROR
        /\ outcome.detail = S_Failed_to_add_episode \o Invocations[1].returned.v
        /\ ~TimezoneMessage(Invocations[1].returned.v) => Len(Invocations) = 1
        /\ TimezoneMessage(Invocations[1].returned.v) =>
              /\ Len(Invocations) = 3
              /\ \A i \in 1..3 : Raised(Invocations[i])

\* all three invocations failed, each with another message
C19_Witness ==
    /\ Answered
    /\ Len(Invocations) = 3
    /\ outcome.status = HTTP_SERVER_ERROR
    /\ Invocations[1].returned.v # Invocations[2].returned.v
    /\ Invocations[1].returned.v # Invocations[3].returned.v

\* C20: the reference_time of the first attempt has no tzinfo: an aware
\* request time is the same instant in UTC, a naive one is passed unchanged, a
\* missing one becomes 2024-01-01 12:00:00; the first retry uses 2024-01-01
\* 12:00:00 and the second retry passes no reference_time.
C20_ReferenceTimes ==
    (Answered /\ Invocations # <<>>) =>
        LET rt == request.reference_time
            first == Invocations[1].reference_time
        IN  /\ first.k = "datetime" /\ ~first.aware
            /\ (rt # PyNone /\ rt.aware) => first.minutes + rt.utcoffset = rt.minutes
            /\ (rt # PyNone /\ ~rt.aware) => first = rt
            /\ rt = PyNone => first.minutes = 12 * 60
            /\ Len(Invocations) >= 2 =>
                  /\ Invocations[2].reference_time.k = "datetime"
                  /\ ~Invocations[2].reference_time.aware
                  /\ Invocations[2].reference_time.minutes = 12 * 60
            /\ Len(Invocations) >= 3 => Invocations[3].reference_time = NoArgument

\* an aware request time east of UTC, and all three attempts made
C20_Witness ==
    /\ Answered
    /\ request.reference_time # PyNone
    /\ request.reference_time.aware
    /\ request.reference_time.utcoffset > 0
    /\ Len(Invocations) = 3

\* ----------------------------------------------------------- get_graphiti
\* C14: across every sequence and interleaving of get_graphiti calls on one
\* event loop, the Neo4j driver and the Graphiti client are each constructed
\* at most once, and every call that returns yields the same instance.
C14_ConstructOnce ==
    /\ constructed.drivers <= 1
    /\ constructed.clients <= 1
    /\ \A first, other \in returns : first.instance = other.instance

\* ---------------------------------------------------- episodes over time
\* the uuids of the entries of the latest listing
ListedUuids ==
    {listing.response.items[i].uuid : i \in 1..Len(listing.response.items)}

\* the latest request was a listing wide enough to hold every stored episode
ListedAll ==
    /\ listing # Unset
    /\ listing.response.status = HTTP_OK
    /\ listing.request.offset = 0
    /\ listing.request.limit = 0 \/ listing.request.limit >= Len(store)

\* C17: once delete_episode has returned success for the uuid of an episode
\* added through add_memory, no later get_episodes response has an entry with
\* that uuid, while the episodes that were not deleted remain listed.
C17_DeletedGoneOthersListed ==
    /\ listing # Unset => \A uuid \in deleted : PyStr(uuid) \notin ListedUuids
    /\ ListedAll => \A uuid \in added \ deleted : PyStr(uuid) \in ListedUuids

\* ------------------------------------------------ purity of the sanitizer
\* a step that is a call of clean_embedding_data
CleanCall == pc' # pc

\* C11: a call of clean_embedding_data leaves every object of its argument
\* as it was, at every depth, leaves graphiti_instance and
\* neo4j_driver_instance as they were, and returns for the same argument the
\* same value (or the same exception) whatever ran before it.
C11_Pure ==
    [][CleanCall =>
        /\ \A a \in 1..Len(memory) : memory'[a] = memory[a]
        /\ read_value(memory', root') = value
        /\ graphiti_instance' = graphiti_instance
        /\ neo4j_driver_instance' = neo4j_driver_instance
        /\ read_value(memory', result') = clean_embedding_data(value).res
        /\ pc' = "twice" =>
              read_value(memory', second') = read_value(memory', result')]_vars

\* both calls made, get_graphiti having constructed the instance between or
\* before them, on an argument nested twice of which something was dropped
C11_Witness ==
    /\ pc = "twice"
    /\ graphiti_instance # None
    /\ result.k = "ref"
    /\ read_value(memory, result) # value
    /\ \E a \in 1..Len(memory), i \in 1..Len(memory[root.v].v) :
          memory[root.v].k = "dict" /\ memory[root.v].v[i][2] = Ref(a)
              /\ memory[a].k \in {"dict", "obj"}

\* ------------------------------------------- get_graphiti: initialization
\* C21: no call of get_graphiti returns the Graphiti instance before
\* build_indices_and_constraints has completed for it.
C21_ReturnedOnlyWhenBuilt == \A call \in returns : call.built

\* C22: when a call of get_graphiti raises, graphiti_instance is None
\* afterwards; when it raises for a missing NEO4J_* variable, neither the
\* driver nor the client has been constructed.
C22_NoneAfterFailure ==
    [][raised' # raised =>
        /\ graphiti_instance' = None
        /\ ~env.neo4j_set =>
              constructed'.drivers = 0 /\ constructed'.clients = 0]_vars

\* C23: in every state, also after graphiti_instance was reset to None and
\* get_graphiti initialized again, a set graphiti_instance implies that
\* neo4j_driver_instance is set and is the driver the instance was built
\* with; the driver a handler reads after get_graphiti returned is never None
\* and is the driver of the instance it was given.
C23_DriverOfInstance ==
    /\ graphiti_instance # None =>
          /\ neo4j_driver_instance # None
          /\ neo4j_driver_instance = graphiti_instance.graph_driver
    /\ \A call \in returns :
          /\ call.driver # None
          /\ call.instance # None => call.driver = call.instance.graph_driver

\* a second instance, constructed after a reset, has been returned
C23_Witness ==
    \E call \in returns :
        call.instance # None /\ call.instance.id = 2 /\ call.driver.id >= 2

\* C27: health_check never raises, and when it reports bge_reranker.active =
\* true the instance get_graphiti returned has a cross_encoder.
C27_ActiveMeansCrossEncoder ==
    \A call \in returns :
        /\ call.health.status \in {"healthy", "unhealthy"}
        /\ call.health.active => call.instance.cross_encoder # "none"

\* ------------------------------------------- search_facts: the center node
\* the elements of seq at the positions in keep, in the order of seq
InOrder(seq, keep) ==
    [k \in 1..Cardinality(keep) |->
        seq[CHOOSE i \in keep : Cardinality({j \in keep : j <= i}) = k]]

\* the n smallest members of a set of positions
Smallest(positions, n) ==
    {i \in positions : Cardinality({j \in positions : j < i}) < n}

\* the raw result has this attribute with this text as its value
AttributeIs(item, name, text) ==
    \E i \in 1..Len(item.obj.v) : item.obj.v[i] = <<PyStr(name), PyStr(text)>>

\* search_facts succeeded for a request with a center node, through the
\* recipe search
CenterSearch ==
    /\ request.endpoint = "search_facts"
    /\ Succeeded
    /\ request.center \notin {NoCenter, PyStr(S_empty)}
    /\ engine.recipes
    /\ "_search" \notin engine.raises

\* C24: when search_facts is given a center_node_uuid and answers through the
\* recipe search, every fact of the response comes from a result whose
\* source_node_uuid or target_node_uuid is the center uuid, the facts are in
\* the engine's order, and of the results connected to the center the first
\* `limit` are taken before those without a 'fact' attribute are skipped.
C24_CenterFilter ==
    CenterSearch =>
        LET center == canonical_uuid(request.center.v)
            connected ==
                {i \in 1..Len(engine.results) :
                    \/ AttributeIs(engine.results[i], S_source_node_uuid, center)
                    \/ AttributeIs(engine.results[i], S_target_node_uuid, center)}
            with_fact ==
                {i \in 1..Len(engine.results) :
                    \E text \in {S_hi} :
                        AttributeIs(engine.results[i], S_fact, text)}
        IN  /\ \E keep \in SUBSET connected :
                  outcome.used = InOrder(engine.results, keep)
            /\ request.limit >= 1 =>
                  outcome.used =
                      InOrder(engine.results,
                              Smallest(connected, request.limit) \cap with_fact)
            /\ Len(outcome.items) = Len(outcome.used)
            /\ \A i \in 1..Len(outcome.items) :
                  AttributeIs(outcome.used[i], S_uuid, outcome.items[i].uuid.v)

\* the center is written in upper case without dashes; the engine returned an
\* edge away from the center and then an edge at it; the limit is 1 and the
\* response carries the second edge
C24_Witness ==
    /\ CenterSearch
    /\ request.center # PyStr(S_n1)
    /\ request.limit = 1
    /\ engine.results = <<Edge2, Edge1>>
    /\ Len(outcome.items) = 1
    /\ outcome.items[1].uuid = PyStr(S_e1)

\* ------------------------------------------------ get_episodes: the page
\* get_episodes answered with a success response
Listed == request.endpoint = "get_episodes" /\ Succeeded

\* the value of the attribute of the raw node, None when it has none
AttributeOf(item, name) ==
    IF \E i \in 1..Len(item.obj.v) : item.obj.v[i][1] = PyStr(name)
    THEN item.obj.v[CHOOSE i \in 1..Len(item.obj.v) :
                        item.obj.v[i][1] = PyStr(name)][2]
    ELSE PyNone

\* C25: every entry of a get_episodes response carries the uuid, the name and
\* the content (episode_body) of the episodic node it was built from, never
\* the placeholder of a missing attribute.
C25_EntriesCarryNode ==
    Listed =>
        \A i \in 1..Len(outcome.items) :
            /\ outcome.items[i].uuid = AttributeOf(outcome.used[i], S_uuid)
            /\ outcome.items[i].name = AttributeOf(outcome.used[i], S_name)
            /\ outcome.items[i].content
                  = AttributeOf(outcome.used[i], S_episode_body)

\* the nodes the search gave the handler: none when it raised or was not made
NodesReceived ==
    IF engine.recipes /\ "_search" \notin engine.raises
    THEN engine.results ELSE <<>>

\* the episodic nodes among them, in the order of the search
EpisodicReceived ==
    InOrder(NodesReceived,
            {i \in 1..Len(NodesReceived) : is_episodic(NodesReceived[i])})

\* C26: get_episodes(limit, offset) with limit > 0 and offset >= 0 returns at
\* most limit entries, built in order from the nodes at positions offset ..
\* offset+limit-1 (counted from 0) of the list of episodic nodes, and
\* data.total is the number of episodic nodes before offset and limit.
C26_PageOfEpisodes ==
    (Listed /\ request.limit >= 1) =>
        /\ Len(outcome.items) <= request.limit
        /\ Len(outcome.items) = Len(outcome.used)
        /\ outcome.used =
              InOrder(EpisodicReceived,
                      {i \in 1..Len(EpisodicReceived) :
                          /\ i - 1 >= request.offset
                          /\ i - 1 <= request.offset + request.limit - 1})
        /\ outcome.total = Len(EpisodicReceived)

\* two episodes listed with limit 1 from offset 1: the second is the page
C26_Witness ==
    /\ Listed
    /\ request.limit = 1
    /\ request.offset = 1
    /\ engine.results = <<Node1, Node3>>
    /\ outcome.used = <<Node3>>
    /\ outcome.total = 2

\* -------------------------------------------------------- delete_episode
\* the last request was a delete_episode
DeleteAnswered == deletion # Unset

\* the graph without the nodes of this uuid
GraphWithout(graph, uuid) ==
    InOrder(graph,
            {i \in 1..Len(graph) : ~AttributeIs(graph[i], S_uuid, uuid)})

\* C29: delete_episode with a text that is no UUID fails without looking
\* anything up and without deleting; with a text of a UUID it looks up the
\* node of the canonical form only, deletes exactly that node and answers the
\* canonical form as deleted_uuid; when it fails, the lookup included,
\* nothing is deleted.
C29_DeleteByCanonicalUuid ==
    DeleteAnswered =>
        \A c \in EpisodeDigits :
            /\ deletion.text \in InvalidTexts(c) =>
                  /\ deletion.status # HTTP_OK
                  /\ deletion.looked_up = <<>>
                  /\ store = deletion.graph
            /\ deletion.text \in ValidTexts(c) =>
                  /\ deletion.looked_up \in {<<>>, Uuid(c)}
                  /\ deletion.status # HTTP_OK => store = deletion.graph
                  /\ deletion.status = HTTP_OK =>
                        /\ deletion.looked_up = Uuid(c)
                        /\ deletion.deleted_uuid = Uuid(c)
                        /\ store = GraphWithout(deletion.graph, Uuid(c))
                        /\ Len(store) = Len(deletion.graph) - 1

\* of two stored episodes one was deleted by a text that is not in the
\* canonical form
C29_Witness ==
    /\ DeleteAnswered
    /\ deletion.status = HTTP_OK
    /\ deletion.text # deletion.deleted_uuid
    /\ Len(deletion.graph) = 2
    /\ Len(store) = 1

\* ------------------------------------------------ add_memory: source_type
\* the two texts are equal when letter case is ignored
SameIgnoringCase(s, t) ==
    Len(s) = Len(t) /\ \A i \in 1..Len(s) : lower_char(s[i]) = lower_char(t[i])

\* C30: add_memory gives the engine the source kind 'text' exactly when
\* source_type is 'text' in any letter case and 'json' for every other
\* source_type; no source_type makes the request fail: once get_graphiti has
\* returned, add_episode is invoked, and a failure response follows a raising
\* invocation only.
C30_SourceKind ==
    (request.endpoint = "add_memory" /\ Answered
        /\ "get_graphiti" \notin engine.raises) =>
        /\ Len(Invocations) >= 1
        /\ \A i \in 1..Len(Invocations) :
              Invocations[i].source =
                  IF SameIgnoringCase(request.source_type, S_text)
                  THEN "text" ELSE "json"
        /\ outcome.status # HTTP_OK => Raised(Invocations[Len(Invocations)])

\* 'TeXt' was forwarded as text and the episode stored
C30_Witness ==
    /\ request.endpoint = "add_memory"
    /\ Succeeded
    /\ request.source_type = S_TeXt
    /\ Len(Invocations) >= 1
    /\ Invocations[1].source = "text"

\* ------------------------------------- clean_embedding_data: the recursion
\* C28: clean_embedding_data returns for every finite argument, and its
\* recursion is never deeper than the argument is nested, which is at most
\* the number of objects the argument is made of; this also when a dict, a
\* list or an object of the argument is reachable from itself.
C28_RecursionWithinNesting ==
    /\ Len(frames) <= Len(value)
    /\ result # Raise("RecursionError")

====
